---- MODULE Spec2Model ----
(***************************************************************************)
(* Construction of wombats' Automaton (src/automaton/base.py): the symbol  *)
(* registry built from the edge configuration, the per-state transition    *)
(* distribution (stochastic, uniform, smoothed), and the global            *)
(* (state, symbol) -> destination map with its duplicate check.            *)
(*                                                                         *)
(* Weights are exact rationals, held as integers in units of 1/One.  One   *)
(* is 10^6 * Scale, so that a millionth is representable (the sampler's    *)
(* tolerance is 1e-5) and every division the code performs (by the number  *)
(* of outgoing edges, by the number of positive entries) is exact.         *)
(* External symbols are integers 11, 12, 13 (read: a, b, c); registry      *)
(* indices are 1..N; the final symbol is its own index, -1.                *)
(* An optional attribute is a sequence: <<>> when absent, <<v>> when set.  *)
(*                                                                         *)
(* The heaps of src/utils.py (MinHeap, MaxHeap over heapq) are modelled    *)
(* beside it, with a specification of their own (HeapSpec).                *)
(***************************************************************************)
EXTENDS Integers, Sequences, FiniteSets, TLC

\* most edges in one edge configuration
MaxEdges == 3

\* most calls of heappush on one heap, and the values pushed, 1..MaxVal
MaxPushes == 8
MaxVal == 3
HeapVals == 1..MaxVal

States == {"A", "B"}
NodeOrder == <<"A", "B">>
Symbols == 11..13

RECURSIVE Gcd(_, _)
Gcd(a, b) == IF b = 0 THEN a ELSE Gcd(b, a % b)

RECURSIVE LcmUpTo(_)
LcmUpTo(n) == IF n <= 1 THEN 1 ELSE (LcmUpTo(n - 1) * n) \div Gcd(LcmUpTo(n - 1), n)

Scale == LcmUpTo(MaxEdges + 1)
One == 1000000 * Scale

\* num/den as a weight
W(num, den) == (One \div den) * num

AbsDiff(x, y) == IF x >= y THEN x - y ELSE y - x

RECURSIVE SumSeq(_)
SumSeq(s) == IF s = <<>> THEN 0 ELSE Head(s) + SumSeq(Tail(s))

Range(s) == {s[i] : i \in DOMAIN s}

VARIABLES
    is_stochastic, use_smoothing, smoothing_amount,
    cfg_nodes, cfg_edges, cfg_alphabet_size, cfg_num_states,
    symbol_display_map, edge_list,
    alphabet_size, num_states,
    node_data, transition_map,
    sampler_checks, locals, pc, next_node, error, recomputed,
    h,          \* MinHeap.h, the list heapq works on
    held,       \* how many of each value were pushed and not yet popped
    pushes,     \* the calls of heappush so far
    pops,       \* the calls of heappop so far
    returned    \* what the last heappop returned

automaton_vars ==
    <<is_stochastic, use_smoothing, smoothing_amount, cfg_nodes, cfg_edges,
      cfg_alphabet_size, cfg_num_states,
      symbol_display_map, edge_list, alphabet_size, num_states,
      node_data, transition_map, sampler_checks, locals, pc, next_node, error,
      recomputed>>

heap_vars == <<h, held, pushes, pops, returned>>

vars == <<automaton_vars, heap_vars>>

(***************************************************************************)
(* Python containers.  A dict (and the bidict) keeps insertion order: it   *)
(* is a sequence of <<key, value>> pairs with distinct keys.               *)
(***************************************************************************)
HasKey(d, k) == \E i \in DOMAIN d : d[i][1] = k
Get(d, k) == d[CHOOSE i \in DOMAIN d : d[i][1] = k][2]
Keys(d) == [i \in DOMAIN d |-> d[i][1]]
Values(d) == [i \in DOMAIN d |-> d[i][2]]

\* d[k] = v: a present key keeps its place and takes the new value
DictPut(d, k, v) ==
    IF HasKey(d, k)
    THEN [i \in DOMAIN d |-> IF d[i][1] = k THEN <<k, v>> ELSE d[i]]
    ELSE Append(d, <<k, v>>)

\* dict(zip(keys, values)): of two pairs with one key the later value stays
RECURSIVE DictFromPairs(_)
DictFromPairs(ps) ==
    IF ps = <<>> THEN <<>>
    ELSE DictPut(DictFromPairs(SubSeq(ps, 1, Len(ps) - 1)), ps[Len(ps)][1], ps[Len(ps)][2])

\* symbol_display_map.inv[idx]
Inverse(m, idx) == m[CHOOSE i \in DOMAIN m : m[i][2] = idx][1]

FinalTransitionSym == -1

(***************************************************************************)
(* _convert_states_edges: the edge list and the symbol registry of an edge *)
(* configuration.  cfg_edges is the adjacency dict flattened in iteration  *)
(* order: one record per (source, destination, position in 'symbols').     *)
(***************************************************************************)
\* a registry that counts every edge, not every new symbol
RECURSIVE RegisterSymbolsEveryEdge(_, _, _)
RegisterSymbolsEveryEdge(es, map, symbol_count) ==
    IF es = <<>> THEN map
    ELSE IF HasKey(map, Head(es).symbol)
         THEN RegisterSymbolsEveryEdge(Tail(es), map, symbol_count + 1)
         ELSE RegisterSymbolsEveryEdge(Tail(es),
                                       DictPut(map, Head(es).symbol, symbol_count + 1),
                                       symbol_count + 1)

RECURSIVE RegisterSymbols(_, _, _)
RegisterSymbols(es, map, symbol_count) ==
    IF es = <<>> THEN map
    ELSE IF HasKey(map, Head(es).symbol)
         THEN RegisterSymbols(Tail(es), map, symbol_count)
         ELSE RegisterSymbols(Tail(es),
                              DictPut(map, Head(es).symbol, symbol_count + 1),
                              symbol_count + 1)

\* lines 254-261: an edge carries its probability in the stochastic mode only
NewEdge(e, stochastic) ==
    [e EXCEPT !.probability = IF stochastic THEN e.probability ELSE <<>>]

ConvertStatesEdges(es, stochastic) ==
    [symbol_display_map |->
         DictPut(RegisterSymbols(es, <<>>, 0), FinalTransitionSym, FinalTransitionSym),
     edge_list |-> [i \in DOMAIN es |-> NewEdge(es[i], stochastic)]]

(***************************************************************************)
(* Exceptions: the kind, what it is about, and the state and symbol the    *)
(* message names (<<>> when it names none).                                *)
(***************************************************************************)
Raise(kind, msg, at) == <<[kind |-> kind, msg |-> msg, at |-> at]>>

\* self.edges([n], data=True): n's outgoing edges in adjacency order, that is
\* by neighbour in the order the neighbours were first added, then by edge key
RECURSIVE OutEdgesFrom(_, _, _)
OutEdgesFrom(es, n, p) ==
    IF p > Len(es) THEN <<>>
    ELSE IF /\ es[p].src = n
            /\ \A q \in 1..(p - 1) : ~(es[q].src = n /\ es[q].dst = es[p].dst)
         THEN SelectSeq(es, LAMBDA e : e.src = n /\ e.dst = es[p].dst)
                  \o OutEdgesFrom(es, n, p + 1)
         ELSE OutEdgesFrom(es, n, p + 1)

OutEdges(n) == OutEdgesFrom(edge_list, n, 1)

Categorical(probs, dests, symbols) ==
    [probs |-> probs, dests |-> dests, symbols |-> symbols]

(***************************************************************************)
(* _smooth_categorical.  The result is <<>> when the division by the       *)
(* number of positive entries raises ZeroDivisionError.                    *)
(***************************************************************************)
\* a smoothing that adds the self-loops and takes no mass from the original
\* entries
SmoothCategoricalNoSubtract(curr_state, edge_probs, edge_symbols, edge_dests) ==
    LET new_edge_symbols ==
            SelectSeq(Values(symbol_display_map), LAMBDA sym : sym \notin Range(edge_symbols))
    IN  IF \A i \in DOMAIN edge_probs : edge_probs[i] <= 0 THEN <<>>
        ELSE <<Categorical(
                 edge_probs \o [i \in DOMAIN new_edge_symbols |-> smoothing_amount],
                 edge_dests \o [i \in DOMAIN new_edge_symbols |-> curr_state],
                 edge_symbols \o new_edge_symbols)>>

\* a smoothing that shares the added mass among all the original entries, the
\* ones of weight zero included
SmoothCategoricalAllEntries(curr_state, edge_probs, edge_symbols, edge_dests) ==
    LET new_edge_symbols ==
            SelectSeq(Values(symbol_display_map), LAMBDA sym : sym \notin Range(edge_symbols))
        added_prob_mass == smoothing_amount * Len(new_edge_symbols)
    IN  IF edge_probs = <<>> THEN <<>>
        ELSE <<Categorical(
                 [i \in DOMAIN edge_probs |->
                     edge_probs[i] - (added_prob_mass \div Len(edge_probs))]
                     \o [i \in DOMAIN new_edge_symbols |-> smoothing_amount],
                 edge_dests \o [i \in DOMAIN new_edge_symbols |-> curr_state],
                 edge_symbols \o new_edge_symbols)>>

SmoothCategorical(curr_state, edge_probs, edge_symbols, edge_dests) ==
    LET all_possible_trans == {i \in DOMAIN edge_probs : edge_probs[i] > 0}
        num_orig_samples == Cardinality(all_possible_trans)
        all_symbols_idxs == Values(symbol_display_map)
        new_edge_symbols ==
            SelectSeq(all_symbols_idxs, LAMBDA sym : sym \notin Range(edge_symbols))
        num_added_symbols == Len(new_edge_symbols)
        new_edge_probs == [i \in 1..num_added_symbols |-> smoothing_amount]
        new_edge_dests == [i \in 1..num_added_symbols |-> curr_state]
        added_prob_mass == smoothing_amount * num_added_symbols
    IN  IF num_orig_samples = 0 THEN <<>>
        ELSE LET smoothing_per_orig_trans == added_prob_mass \div num_orig_samples
             IN  <<Categorical(
                     [i \in DOMAIN edge_probs |->
                         IF i \in all_possible_trans
                         THEN edge_probs[i] - smoothing_per_orig_trans
                         ELSE edge_probs[i]] \o new_edge_probs,
                     edge_dests \o new_edge_dests,
                     edge_symbols \o new_edge_symbols)>>

(***************************************************************************)
(* scipy's rv_discrete(values=(xk, pk)).  Every release refuses a pk whose *)
(* sum is not numpy.allclose to 1 (rtol 1e-5, atol 1e-8); later releases   *)
(* also refuse a negative pk, and still later ones a repeated xk as well.  *)
(* sampler_checks is the set of those later checks the installed release   *)
(* makes.                                                                  *)
(***************************************************************************)
SamplerLibs == {{}, {"nonneg"}, {"nonneg", "unique"}}

AllClose(x, y) == AbsDiff(x, y) <= (y \div 100000) + (One \div 100000000)

RvDiscrete(xk, pk) ==
    IF "nonneg" \in sampler_checks /\ \E i \in DOMAIN pk : pk[i] < 0
    THEN Raise("ValueError", "pk negative", <<>>)
    ELSE IF ~AllClose(SumSeq(pk), One)
    THEN Raise("ValueError", "pk sum", <<>>)
    ELSE IF "unique" \in sampler_checks /\ Cardinality(Range(xk)) # Len(xk)
    THEN Raise("ValueError", "xk duplicate", <<>>)
    ELSE <<>>

\* _convert_symbol_idxs on a list of registry indices (all of them ints)
ConvertSymbolIdxs(integer_symbols) ==
    [i \in DOMAIN integer_symbols |-> Inverse(symbol_display_map, integer_symbols[i])]

(***************************************************************************)
(* _set_state_transition_dist.  A result holds the exception raised (err), *)
(* the lists before smoothing (before) and as handed to the sampler        *)
(* (after), the sampler (dist) and the local transition map (entries).     *)
(***************************************************************************)
DistResult(err, before, after, dist, entries) ==
    [err |-> err, before |-> before, after |-> after, dist |-> dist, entries |-> entries]

\* a lookup that reads a missing attribute as 0
GetNodeDataOrZero(node_label, data_key) ==
    IF node_data[node_label][data_key] = <<>> THEN <<0>>
    ELSE node_data[node_label][data_key]

\* _get_node_data: <<>> stands for the KeyError of a missing attribute
GetNodeData(node_label, data_key) == node_data[node_label][data_key]

\* a uniform branch that gives every state the final entry, with a share of
\* the weight
UniformDistWithFinal(curr_state, edge_dests, edge_symbols) ==
    Categorical([i \in 1..(Len(edge_symbols) + 1) |-> One \div (Len(edge_symbols) + 1)],
                edge_dests \o <<curr_state>>,
                edge_symbols \o <<FinalTransitionSym>>)

\* lines 604-611: the lists of the non-stochastic mode
UniformDist(curr_state, edge_dests, edge_symbols) ==
    IF Len(edge_symbols) = 0
    THEN Categorical(<<One>>, edge_dests \o <<curr_state>>,
                     edge_symbols \o <<FinalTransitionSym>>)
    ELSE Categorical([i \in DOMAIN edge_symbols |-> One \div Len(edge_symbols)],
                     edge_dests, edge_symbols)

WithFinalEntryIfPositive(curr_state, edge_probs, edge_dests, edge_symbols, final_prob) ==
    IF final_prob = 0
    THEN Categorical(edge_probs, edge_dests, edge_symbols)
    ELSE Categorical(edge_probs \o <<final_prob>>,
                     edge_dests \o <<curr_state>>,
                     edge_symbols \o <<FinalTransitionSym>>)

\* lines 587-589: the final-state transition closes the lists of the
\* stochastic mode
WithFinalEntry(curr_state, edge_probs, edge_dests, edge_symbols, final_prob) ==
    Categorical(edge_probs \o <<final_prob>>,
                edge_dests \o <<curr_state>>,
                edge_symbols \o <<FinalTransitionSym>>)

\* lines 567-611: the three lists, up to the sampler
AssembleDist(curr_state, stochastic, smooth) ==
    LET edge_data == OutEdges(curr_state)
        edge_dests == [i \in DOMAIN edge_data |-> edge_data[i].dst]
        edge_symbols ==
            [i \in DOMAIN edge_data |-> Get(symbol_display_map, edge_data[i].symbol)]
    IN  IF stochastic
        THEN IF \E i \in DOMAIN edge_data : edge_data[i].probability = <<>>
             THEN DistResult(Raise("KeyError", "probability", <<>>), <<>>, <<>>, <<>>, <<>>)
             ELSE IF GetNodeData(curr_state, "final_probability") = <<>>
             THEN DistResult(Raise("KeyError", "final_probability", <<>>),
                             <<>>, <<>>, <<>>, <<>>)
             ELSE LET curr_final_state_prob ==
                          GetNodeData(curr_state, "final_probability")[1]
                      before ==
                          WithFinalEntry(
                              curr_state,
                              [i \in DOMAIN edge_data |-> edge_data[i].probability[1]],
                              edge_dests, edge_symbols, curr_final_state_prob)
                      smoothed == SmoothCategorical(curr_state, before.probs,
                                                    before.symbols, before.dests)
                  IN  IF ~smooth THEN DistResult(<<>>, <<before>>, <<before>>, <<>>, <<>>)
                      ELSE IF smoothed = <<>>
                      THEN DistResult(Raise("ZeroDivisionError", "division by zero", <<>>),
                                      <<before>>, <<>>, <<>>, <<>>)
                      ELSE DistResult(<<>>, <<before>>, smoothed, <<>>, <<>>)
        ELSE LET uniform == UniformDist(curr_state, edge_dests, edge_symbols)
             IN  DistResult(<<>>, <<uniform>>, <<uniform>>, <<>>, <<>>)

\* lines 616-620: the (state, symbol) -> destination entries
LocalTransitionMap(curr_state, disp_edge_symbols, edge_dests) ==
    DictFromPairs([i \in DOMAIN disp_edge_symbols |->
                      <<<<curr_state, disp_edge_symbols[i]>>, edge_dests[i]>>])

\* lines 613-622, for the lists r that lines 567-611 made (unless they raised)
FinishDist(curr_state, r, sampler) ==
    IF r.err # <<>> THEN r
    ELSE IF sampler # <<>>
    THEN DistResult(sampler, r.before, r.after, <<>>, <<>>)
    ELSE DistResult(<<>>, r.before, r.after,
                    <<[xk |-> r.after[1].symbols, pk |-> r.after[1].probs]>>,
                    LocalTransitionMap(curr_state,
                                       ConvertSymbolIdxs(r.after[1].symbols),
                                       r.after[1].dests))

\* the sampler's answer to the lists r (none when lines 567-611 raised)
SamplerOf(r) ==
    IF r.err # <<>> THEN <<>> ELSE RvDiscrete(r.after[1].symbols, r.after[1].probs)

SampledDist(curr_state, r) == FinishDist(curr_state, r, SamplerOf(r))

SetStateTransitionDist(curr_state, stochastic, smooth) ==
    SampledDist(curr_state, AssembleDist(curr_state, stochastic, smooth))

\* the subclass's _set_state_acceptance (PDFA: a state accepts when it can end)
SetStateAcceptance(nd, curr_state) ==
    [nd EXCEPT ![curr_state].is_accepting =
        <<nd[curr_state].final_probability # <<>> /\ nd[curr_state].final_probability[1] > 0>>]

(***************************************************************************)
(* _compute_node_data_properties: acceptance, the distribution, then the   *)
(* duplicate check of the local entries and the merge.  The result is the  *)
(* node data, the global map and the exception after the call, with the    *)
(* result r of the call of _set_state_transition_dist.                     *)
(***************************************************************************)
\* a check that lets a key pass when its destination is the map's
CollidingKeysOtherDest(entries) ==
    SelectSeq(Keys(entries),
              LAMBDA key : key \in DOMAIN transition_map
                               /\ transition_map[key] # Get(entries, key))

\* lines 357-358: the local keys the global map already holds
CollidingKeys(entries) ==
    SelectSeq(Keys(entries), LAMBDA key : key \in DOMAIN transition_map)

\* {**self._transition_map, **new_trans_map_entries}
MergeEntries(old, entries) ==
    [key \in DOMAIN old \cup Range(Keys(entries)) |->
        IF HasKey(entries, key) THEN Get(entries, key) ELSE old[key]]

\* the call with the acceptance set after the distribution: a call that
\* raises in _set_state_transition_dist leaves the node data as it was
AttachAndMergeAcceptLast(node, accepted, r, hit) ==
    IF r.err # <<>>
    THEN [node_data |-> node_data, transition_map |-> transition_map,
          error |-> r.err, r |-> r]
    ELSE IF hit # <<>>
    THEN [node_data |-> [accepted EXCEPT ![node].trans_distribution = r.dist],
          transition_map |-> transition_map,
          error |-> Raise("ValueError", "duplicate transition", hit[1]), r |-> r]
    ELSE [node_data |-> [accepted EXCEPT ![node].trans_distribution = r.dist],
          transition_map |-> MergeEntries(transition_map, r.entries),
          error |-> <<>>, r |-> r]

\* lines 346-367, for the result r of the call of _set_state_transition_dist
\* and the keys hit that r's entries share with the global map
AttachAndMerge(node, accepted, r, hit) ==
    IF r.err # <<>>
    THEN [node_data |-> accepted, transition_map |-> transition_map,
          error |-> r.err, r |-> r]
    ELSE IF hit # <<>>
    THEN [node_data |-> [accepted EXCEPT ![node].trans_distribution = r.dist],
          transition_map |-> transition_map,
          error |-> Raise("ValueError", "duplicate transition", hit[1]), r |-> r]
    ELSE [node_data |-> [accepted EXCEPT ![node].trans_distribution = r.dist],
          transition_map |-> MergeEntries(transition_map, r.entries),
          error |-> <<>>, r |-> r]

\* a merge without the duplicate check
MergeUnchecked(node, accepted, r) == AttachAndMerge(node, accepted, r, <<>>)

CheckAndMerge(node, accepted, r) ==
    AttachAndMerge(node, accepted, r, CollidingKeys(r.entries))

ComputeNodeDataProperties(node) ==
    CheckAndMerge(node, SetStateAcceptance(node_data, node),
                  SetStateTransitionDist(node, is_stochastic, use_smoothing))

(***************************************************************************)
(* The heaps of src/utils.py.  MinHeap keeps a list h and hands it to      *)
(* heapq; MaxHeap pushes MaxHeapObj(x), whose __lt__ is reversed, and      *)
(* unwraps on the way out.  heapq's heappush, heappop, _siftdown and       *)
(* _siftup are written out as the library has them; positions are heapq's, *)
(* from 0.                                                                 *)
(***************************************************************************)
At(heap, pos) == heap[pos + 1]
Put(heap, pos, item) == [heap EXCEPT ![pos + 1] = item]

\* MaxHeapObj.__init__
MaxHeapObj(val) == [val |-> val]

\* the comparison of a min heap
LtMin(self, other) == self.val < other.val

\* MaxHeapObj.__lt__
Lt(self, other) == self.val > other.val

\* heapq._siftdown, from "while pos > startpos" on
RECURSIVE SiftDownLoop(_, _, _, _)
SiftDownLoop(heap, startpos, pos, newitem) ==
    IF pos > startpos /\ Lt(newitem, At(heap, (pos - 1) \div 2))
    THEN SiftDownLoop(Put(heap, pos, At(heap, (pos - 1) \div 2)), startpos,
                      (pos - 1) \div 2, newitem)
    ELSE Put(heap, pos, newitem)

SiftDown(heap, startpos, pos) == SiftDownLoop(heap, startpos, pos, At(heap, pos))

\* the child heapq._siftup moves up: the right one unless the left is smaller
SmallerChild(heap, childpos) ==
    IF childpos + 1 < Len(heap) /\ ~Lt(At(heap, childpos), At(heap, childpos + 1))
    THEN childpos + 1
    ELSE childpos

\* heapq._siftup, from "while childpos < endpos" on
RECURSIVE SiftUpLoop(_, _, _, _)
SiftUpLoop(heap, startpos, pos, newitem) ==
    IF 2 * pos + 1 < Len(heap)
    THEN SiftUpLoop(Put(heap, pos, At(heap, SmallerChild(heap, 2 * pos + 1))), startpos,
                    SmallerChild(heap, 2 * pos + 1), newitem)
    ELSE SiftDown(Put(heap, pos, newitem), startpos, pos)

SiftUp(heap, pos) == SiftUpLoop(heap, pos, pos, At(heap, pos))

\* heapq.heappush(heap, item)
HeapqPush(heap, item) == SiftDown(Append(heap, item), 0, Len(heap))

\* heapq.heappop(heap), for the last element and the others: the item
\* returned and the list left
HeapqPopLast(lastelt, rest) ==
    IF rest # <<>>
    THEN [item |-> At(rest, 0), heap |-> SiftUp(Put(rest, 0, lastelt), 0)]
    ELSE [item |-> lastelt, heap |-> rest]

HeapqPop(heap) == HeapqPopLast(heap[Len(heap)], SubSeq(heap, 1, Len(heap) - 1))

\* MaxHeap.__getitem__ and MinHeap.__len__
GetItem(i) == At(h, i).val
HeapLen == Len(h)

\* MinHeap.__init__
MinHeapInit ==
    /\ h = <<>>
    /\ held = [v \in HeapVals |-> 0]
    /\ pushes = 0
    /\ pops = 0
    /\ returned = <<>>

(***************************************************************************)
(* The inputs.  An edge configuration is the adjacency dict flattened in   *)
(* iteration order, at most MaxEdges edges over the states A, B; symbols   *)
(* are named in the order they first appear.                               *)
(*   uniform     any such configuration, its symbols named a, b, c or      *)
(*               c, b, a, its edges without probabilities or all with 0.8  *)
(*   stochastic  any such configuration whose edges lead to the other      *)
(*               state, with probabilities 0 or 0.8                        *)
(*   fine        A -a-> B, B -b-> A, B -c-> A with probabilities and final *)
(*               probabilities that also hold 0.005 and 0.200005           *)
(*   scenario    A -a-> B, A -b-> A with probabilities 0.5 and 0.3, and    *)
(*               final probabilities 0.2 or 1                              *)
(* The declared sizes are the graph's; the fine inputs also declare one of *)
(* them one too large.                                                     *)
(***************************************************************************)
ProbVals == {0, W(4, 5)}
FinalVals == {<<>>, <<0>>, <<W(1, 5)>>, <<One>>}
FineProbVals == {0, W(5, 1000), W(1, 5), W(4, 5), W(995, 1000)}
FineFinalVals == {<<0>>, <<W(5, 1000)>>, <<W(1, 5)>>, <<W(200005, 1000000)>>,
                  <<W(995, 1000)>>}
SmoothingAmounts == {W(1, 100)}

Other(n) == CHOOSE m \in States : m # n

\* the flattening of a dict of dicts: one source's edges are contiguous, and
\* within them one destination's
Grouped(es) ==
    \A i, j, k \in DOMAIN es :
        (i < j /\ j < k) =>
            /\ es[i].src = es[k].src => es[j].src = es[i].src
            /\ (es[i].src = es[k].src /\ es[i].dst = es[k].dst) => es[j].dst = es[i].dst

\* the symbols are named in the order they first appear
NamedInOrder(es, order) ==
    \A i \in DOMAIN es :
        LET seen == {es[j].symbol : j \in 1..(i - 1)}
        IN  es[i].symbol \in seen \/ es[i].symbol = order[Cardinality(seen) + 1]

SymbolOrders == {<<11, 12, 13>>, <<13, 12, 11>>}

EdgeConfigs(records) ==
    {es \in UNION {[1..k -> records] : k \in 0..MaxEdges} : Grouped(es)}

UniformEdges ==
    [src : States, dst : States, symbol : Symbols, probability : {<<>>, <<W(4, 5)>>}]

\* the edges declare probabilities or none does
DeclaredAlike(es) == \A i, j \in DOMAIN es : es[i].probability = es[j].probability

StochasticEdges ==
    {e \in [src : States, dst : States, symbol : Symbols,
            probability : {<<p>> : p \in ProbVals}] : e.dst = Other(e.src)}

FineEdge(src, symbol, p) ==
    [src |-> src, dst |-> Other(src), symbol |-> symbol, probability |-> <<p>>]

FineConfigs ==
    {<<FineEdge("A", 11, p1), FineEdge("B", 12, p2), FineEdge("B", 13, p3)>> :
        p1 \in FineProbVals, p2 \in {0, W(4, 5)}, p3 \in {0, W(1, 5)}}

\* A -a-> B with 0.5 and A -b-> A with 0.3
ScenarioConfigs ==
    {<<[src |-> "A", dst |-> "B", symbol |-> 11, probability |-> <<W(1, 2)>>],
       [src |-> "A", dst |-> "A", symbol |-> 12, probability |-> <<W(3, 10)>>]>>}

\* the sizes of the graph the configuration describes
NumSymbols(es) == Cardinality({e.symbol : e \in Range(es)})
NumStates == Len(NodeOrder)

\* the declared sizes: the graph's, or one of them one too large
DeclaredSizes(es) ==
    {<<NumSymbols(es), NumStates>>, <<NumSymbols(es) + 1, NumStates>>,
     <<NumSymbols(es), NumStates + 1>>}

NoNodeData ==
    [n \in States |-> [final_probability |-> <<>>, is_accepting |-> <<>>,
                       trans_distribution |-> <<>>]]

InitUniform ==
    /\ is_stochastic = FALSE
    /\ use_smoothing \in BOOLEAN
    /\ cfg_edges \in {es \in EdgeConfigs(UniformEdges) :
                        /\ DeclaredAlike(es)
                        /\ \E order \in SymbolOrders : NamedInOrder(es, order)}
    /\ cfg_nodes \in {[n \in States |-> fp] : fp \in {<<>>, <<W(1, 5)>>}}
    /\ cfg_alphabet_size = NumSymbols(cfg_edges)
    /\ cfg_num_states = NumStates

InitStochastic ==
    /\ is_stochastic = TRUE
    /\ use_smoothing \in BOOLEAN
    /\ cfg_edges \in {es \in EdgeConfigs(StochasticEdges) :
                        NamedInOrder(es, <<11, 12, 13>>)}
    /\ cfg_nodes \in [States -> FinalVals]
    /\ cfg_alphabet_size = NumSymbols(cfg_edges)
    /\ cfg_num_states = NumStates

InitFine ==
    /\ is_stochastic = TRUE
    /\ use_smoothing \in BOOLEAN
    /\ cfg_edges \in FineConfigs
    /\ cfg_nodes \in [States -> FineFinalVals]
    /\ \E declared \in DeclaredSizes(cfg_edges) :
          /\ cfg_alphabet_size = declared[1]
          /\ cfg_num_states = declared[2]

InitScenario ==
    /\ is_stochastic = TRUE
    /\ use_smoothing \in BOOLEAN
    /\ cfg_edges \in ScenarioConfigs
    /\ cfg_nodes \in [States -> {<<W(1, 5)>>, <<One>>}]
    /\ cfg_alphabet_size = NumSymbols(cfg_edges)
    /\ cfg_num_states = NumStates

Init ==
    /\ InitUniform \/ InitStochastic \/ InitFine \/ InitScenario
    /\ smoothing_amount \in SmoothingAmounts
    /\ sampler_checks \in SamplerLibs
    /\ symbol_display_map = <<>>
    /\ edge_list = <<>>
    /\ alphabet_size = 0
    /\ num_states = 0
    /\ node_data = NoNodeData
    /\ transition_map = <<>>
    /\ locals = [n \in States |-> <<>>]
    /\ pc = "config"
    /\ next_node = 1
    /\ error = <<>>
    /\ recomputed = <<>>
    /\ MinHeapInit

\* the builder's call of _convert_states_edges on the configuration
Convert ==
    /\ pc = "config"
    /\ symbol_display_map' = ConvertStatesEdges(cfg_edges, is_stochastic).symbol_display_map
    /\ edge_list' = ConvertStatesEdges(cfg_edges, is_stochastic).edge_list
    /\ pc' = "converted"
    /\ UNCHANGED <<is_stochastic, use_smoothing, smoothing_amount, sampler_checks,
                   cfg_nodes, cfg_edges,
                   cfg_alphabet_size, cfg_num_states,
                   alphabet_size, num_states, node_data, transition_map, locals,
                   next_node, error, recomputed>>
    /\ UNCHANGED heap_vars

\* a constructor that compares the declared sizes with the graph
AutomatonInitChecked ==
    /\ pc = "converted"
    /\ alphabet_size' = cfg_alphabet_size
    /\ num_states' = cfg_num_states
    /\ transition_map' = <<>>
    /\ node_data' = [n \in States |-> [NoNodeData[n] EXCEPT !.final_probability = cfg_nodes[n]]]
    /\ next_node' = 1
    /\ IF cfg_alphabet_size = NumSymbols(edge_list) /\ cfg_num_states = NumStates
       THEN pc' = "nodes" /\ error' = error
       ELSE pc' = "failed" /\ error' = Raise("ConfigMismatch", "declared sizes", <<>>)
    /\ UNCHANGED <<is_stochastic, use_smoothing, smoothing_amount, sampler_checks,
                   cfg_nodes, cfg_edges, cfg_alphabet_size, cfg_num_states,
                   symbol_display_map, edge_list, locals, recomputed>>
    /\ UNCHANGED heap_vars

\* __init__, lines 119-147: the fields, then the graph's nodes and edges
AutomatonInit ==
    /\ pc = "converted"
    /\ alphabet_size' = cfg_alphabet_size
    /\ num_states' = cfg_num_states
    /\ transition_map' = <<>>
    /\ node_data' = [n \in States |-> [NoNodeData[n] EXCEPT !.final_probability = cfg_nodes[n]]]
    /\ next_node' = 1
    /\ pc' = "nodes"
    /\ UNCHANGED <<is_stochastic, use_smoothing, smoothing_amount, sampler_checks,
                   cfg_nodes, cfg_edges,
                   cfg_alphabet_size, cfg_num_states,
                   symbol_display_map, edge_list, locals, error, recomputed>>
    /\ UNCHANGED heap_vars

\* what a call of _compute_node_data_properties on node leaves behind, c
\* being its outcome
NodeComputed(node, c) ==
    /\ node_data' = c.node_data
    /\ transition_map' = c.transition_map
    /\ locals' = [locals EXCEPT ![node] = <<[c.r EXCEPT !.err = c.error]>>]

\* one turn of the loop of _initialize_node_edge_properties, lines 320-321
ComputeNode ==
    /\ pc = "nodes"
    /\ next_node <= Len(NodeOrder)
    /\ NodeComputed(NodeOrder[next_node], ComputeNodeDataProperties(NodeOrder[next_node]))
    /\ error' = locals'[NodeOrder[next_node]][1].err
    /\ pc' = IF error' # <<>> THEN "failed" ELSE "nodes"
    /\ next_node' = IF error' # <<>> THEN next_node ELSE next_node + 1
    /\ UNCHANGED <<is_stochastic, use_smoothing, smoothing_amount, sampler_checks,
                   cfg_nodes, cfg_edges,
                   cfg_alphabet_size, cfg_num_states,
                   symbol_display_map, edge_list, alphabet_size, num_states, recomputed>>
    /\ UNCHANGED heap_vars

\* lines 323-325 with the default (None) weight and observation keys: the
\* display labels, which read no attribute that can be missing
SetLabels ==
    /\ pc = "nodes"
    /\ next_node > Len(NodeOrder)
    /\ pc' = "done"
    /\ UNCHANGED <<is_stochastic, use_smoothing, smoothing_amount, sampler_checks,
                   cfg_nodes, cfg_edges,
                   cfg_alphabet_size, cfg_num_states,
                   symbol_display_map, edge_list, alphabet_size, num_states, node_data,
                   transition_map, locals, next_node, error, recomputed>>
    /\ UNCHANGED heap_vars

\* a later call of _compute_node_data_properties on a state of the automaton
Recompute ==
    /\ pc = "done"
    /\ \E node \in States :
          /\ NodeComputed(node, ComputeNodeDataProperties(node))
          /\ recomputed' = <<[node |-> node, error |-> locals'[node][1].err,
                              before |-> transition_map]>>
    /\ UNCHANGED <<is_stochastic, use_smoothing, smoothing_amount, sampler_checks,
                   cfg_nodes, cfg_edges,
                   cfg_alphabet_size, cfg_num_states,
                   symbol_display_map, edge_list, alphabet_size, num_states,
                   pc, next_node, error>>
    /\ UNCHANGED heap_vars

Next == Convert \/ AutomatonInit \/ ComputeNode \/ SetLabels \/ Recompute

Spec == Init /\ [][Next]_vars

(***************************************************************************)
(* A MaxHeap in use: any sequence of heappush and heappop, the latter on a *)
(* heap that is not empty.                                                 *)
(***************************************************************************)
\* no automaton is being built
NoAutomaton ==
    /\ is_stochastic = FALSE /\ use_smoothing = FALSE
    /\ smoothing_amount \in SmoothingAmounts
    /\ sampler_checks = {}
    /\ cfg_edges = <<>>
    /\ cfg_nodes = [n \in States |-> <<>>]
    /\ cfg_alphabet_size = 0 /\ cfg_num_states = NumStates
    /\ symbol_display_map = <<>> /\ edge_list = <<>>
    /\ alphabet_size = 0 /\ num_states = 0
    /\ node_data = NoNodeData /\ transition_map = <<>>
    /\ locals = [n \in States |-> <<>>]
    /\ pc = "config" /\ next_node = 1 /\ error = <<>> /\ recomputed = <<>>

HeapInit == NoAutomaton /\ MinHeapInit

\* what a call of heappop leaves behind, popped being heapq's answer
Popped(popped) ==
    /\ h' = popped.heap
    /\ returned' = <<popped.item.val>>
    /\ held' = [held EXCEPT ![popped.item.val] = @ - 1]

\* MaxHeap.heappush(x)
HeapPush ==
    /\ pushes < MaxPushes
    /\ \E x \in HeapVals :
          /\ h' = HeapqPush(h, MaxHeapObj(x))
          /\ held' = [held EXCEPT ![x] = @ + 1]
    /\ pushes' = pushes + 1
    /\ UNCHANGED <<pops, returned>>
    /\ UNCHANGED automaton_vars

\* MaxHeap.heappop()
HeapPop ==
    /\ h # <<>>
    /\ Popped(HeapqPop(h))
    /\ pops' = pops + 1
    /\ UNCHANGED pushes
    /\ UNCHANGED automaton_vars

HeapNext == HeapPush \/ HeapPop

HeapSpec == HeapInit /\ [][HeapNext]_vars

(***************************************************************************)
(* Properties of the construction.                                         *)
(***************************************************************************)
Built == pc = "done"
Failed == pc = "failed"

\* the state whose computation raised
FailedAt == NodeOrder[next_node]

\* the symbols that two of n's outgoing edges carry
DuplicateSymbols(n) ==
    {sym \in Symbols :
        \E i, j \in DOMAIN cfg_edges :
            /\ i < j
            /\ cfg_edges[i].src = n /\ cfg_edges[j].src = n
            /\ cfg_edges[i].symbol = sym /\ cfg_edges[j].symbol = sym}

\* C1: a construction in which some state has two outgoing edges with one
\* symbol fails: no automaton is produced from such a configuration.
C1_DuplicateSymbolRefused ==
    \A n \in States : DuplicateSymbols(n) # {} => ~Built

\* the declared sizes disagree with the graph
SizesMismatch ==
    cfg_alphabet_size # NumSymbols(cfg_edges) \/ cfg_num_states # NumStates

Before(n) == locals[n][1].before[1]
After(n) == locals[n][1].after[1]
Dist(n) == node_data[n].trans_distribution[1]
HasLists(n) ==
    locals[n] # <<>> /\ locals[n][1].before # <<>> /\ locals[n][1].after # <<>>
HasDist(n) == node_data[n].trans_distribution # <<>>

\* C3 as stated: in a built automaton every state's weights sum to 1 within
\* 1e-9, before and after smoothing.
C3_WeightsSumToOne ==
    Built =>
        \A n \in States :
            /\ AbsDiff(SumSeq(Before(n).probs), One) <= One \div 1000000000
            /\ AbsDiff(SumSeq(Dist(n).pk), One) <= One \div 1000000000

\* C3: a state's weights sum to 1 exactly in the non-stochastic mode;
\* smoothing leaves the sum of a state's weights what it was; and the weights
\* of every sampler that exists are the lists' weights and sum to 1 within
\* the sampler's own tolerance, 1e-5 + 1e-8.
C3_WeightsSumWithinSamplerTolerance ==
    \A n \in States :
        /\ HasLists(n) =>
               /\ SumSeq(After(n).probs) = SumSeq(Before(n).probs)
               /\ ~is_stochastic => SumSeq(After(n).probs) = One
        /\ HasDist(n) =>
               /\ HasLists(n) /\ Dist(n).pk = After(n).probs
               /\ AbsDiff(SumSeq(Dist(n).pk), One)
                      <= (One \div 100000) + (One \div 100000000)

\* C3's case: a built automaton one of whose states was smoothed and has
\* weights that do not sum to 1
C3_SmoothedOffByFiveMillionths ==
    /\ Built
    /\ use_smoothing
    /\ \E n \in States :
           /\ Len(After(n).probs) > Len(Before(n).probs)
           /\ SumSeq(Dist(n).pk) = One + W(5, 1000000)
           /\ SumSeq(Before(n).probs) = One + W(5, 1000000)

\* the registry indices of the alphabet's symbols (the final symbol apart)
AlphabetIdxs == {Get(symbol_display_map, sym) : sym \in {e.symbol : e \in Range(edge_list)}}

\* the weight n's sampler gives the symbol of index idx
WeightOf(n, idx) ==
    SumSeq([i \in DOMAIN Dist(n).xk |-> IF Dist(n).xk[i] = idx THEN Dist(n).pk[i] ELSE 0])

\* C4: in an automaton built with smoothing (in the stochastic mode, where
\* smoothing is applied) every alphabet symbol has a strictly positive weight
\* at every state.
C4_SmoothingCoversAlphabet ==
    (Built /\ is_stochastic /\ use_smoothing) =>
        \A n \in States : \A idx \in AlphabetIdxs :
            /\ \E i \in DOMAIN Dist(n).xk : Dist(n).xk[i] = idx
            /\ WeightOf(n, idx) > 0

\* C5: every weight of the lists a state's computation hands to the sampler
\* (after smoothing, when it is applied) is non-negative, and so is every
\* weight of every state's distribution.
C5_WeightsNonNegative ==
    \A n \in States :
        /\ HasLists(n) => \A i \in DOMAIN After(n).probs : After(n).probs[i] >= 0
        /\ HasDist(n) => \A i \in DOMAIN Dist(n).pk : Dist(n).pk[i] >= 0

\* the place of sym's first edge in the edge configuration
FirstUse(sym) ==
    CHOOSE i \in DOMAIN cfg_edges :
        /\ cfg_edges[i].symbol = sym
        /\ \A j \in 1..(i - 1) : cfg_edges[j].symbol # sym

EdgeSymbols == {e.symbol : e \in Range(cfg_edges)}

\* C6: the registry built from the edge configuration holds every edge
\* symbol and the final symbol once; the edge symbols' indices are exactly
\* 1..N, in the order the symbols are first met; the final symbol is its own
\* index, outside 1..N; and the inverse of a symbol's index is the symbol.
C6_RegistryBijection ==
    pc # "config" =>
        LET m == symbol_display_map
            N == Cardinality(EdgeSymbols)
        IN  /\ Len(m) = N + 1
            /\ Range(Keys(m)) = EdgeSymbols \cup {FinalTransitionSym}
            /\ {Get(m, sym) : sym \in EdgeSymbols} = 1..N
            /\ \A x, y \in EdgeSymbols :
                   Get(m, x) < Get(m, y) <=> FirstUse(x) < FirstUse(y)
            /\ Get(m, FinalTransitionSym) = FinalTransitionSym
            /\ FinalTransitionSym \notin 1..N
            /\ \A x \in Range(Keys(m)) : Inverse(m, Get(m, x)) = x
            /\ ConvertSymbolIdxs(Values(m)) = Keys(m)

\* C6's case: a registry of two symbols met in the order c, a with a symbol
\* met twice
C6_RegistryOutOfNameOrder ==
    /\ pc # "config"
    /\ Len(cfg_edges) = 3
    /\ symbol_display_map = <<<<13, 1>>, <<12, 2>>, <<FinalTransitionSym, FinalTransitionSym>>>>
    /\ cfg_edges[1].symbol = 13 /\ cfg_edges[2].symbol = 13 /\ cfg_edges[3].symbol = 12

C8_NoPositiveEntryValueError ==
    \A n \in States :
        (/\ is_stochastic /\ use_smoothing
         /\ locals[n] # <<>> /\ locals[n][1].before # <<>>
         /\ \A i \in DOMAIN Before(n).probs : Before(n).probs[i] = 0) =>
            /\ locals[n][1].err # <<>>
            /\ locals[n][1].err[1].kind = "ValueError"

\* this step is a call of _compute_node_data_properties on n
Computes(n) ==
    \/ pc = "nodes" /\ next_node <= Len(NodeOrder) /\ NodeOrder[next_node] = n
    \/ pc = "done" /\ recomputed' # <<>> /\ recomputed'[1].node = n

\* the keys of the local entries that step made which the global map held
HitKeys(n) ==
    SelectSeq(Keys(locals'[n][1].entries), LAMBDA key : key \in DOMAIN transition_map)

\* C9: no step changes the destination of a key the global map holds; a call
\* one of whose local keys the map holds fails with the duplicate-transition
\* error naming that key's state and symbol, and leaves the map as it was; a
\* call that succeeds adds its local entries to the map.
C9_MergeNeverOverwrites ==
    [][/\ \A key \in DOMAIN transition_map :
              key \in DOMAIN transition_map' /\ transition_map'[key] = transition_map[key]
       /\ \A n \in States :
              Computes(n) =>
                  /\ HitKeys(n) # <<>> =>
                         /\ transition_map' = transition_map
                         /\ locals'[n][1].err =
                                Raise("ValueError", "duplicate transition", HitKeys(n)[1])
                  /\ locals'[n][1].err = <<>> =>
                         \A i \in DOMAIN locals'[n][1].entries :
                             transition_map'[locals'[n][1].entries[i][1]]
                                 = locals'[n][1].entries[i][2]
      ]_vars

\* C9's case: a call on a state of a built automaton hit a key of the map,
\* failed, and left the map as it was
C9_RecomputeCollided ==
    /\ recomputed # <<>>
    /\ recomputed[1].error # <<>>
    /\ recomputed[1].error[1].msg = "duplicate transition"
    /\ recomputed[1].error[1].at[1] = recomputed[1].node
    /\ recomputed[1].before # <<>>
    /\ transition_map = recomputed[1].before
    /\ locals[recomputed[1].node][1].entries # <<>>

\* the registered symbols' indices that are not among n's original symbols
Missing(n) ==
    SelectSeq(Values(symbol_display_map), LAMBDA idx : idx \notin Range(Before(n).symbols))

\* the number of n's original entries of strictly positive weight
NumPositive(n) == Cardinality({i \in DOMAIN Before(n).probs : Before(n).probs[i] > 0})

Smoothed(n) == is_stochastic /\ use_smoothing /\ HasLists(n)

\* C10: smoothing returns every original entry of positive weight reduced by
\* eps * |missing| / k, every original entry of weight zero unchanged, each
\* with its symbol and destination, followed by one self-loop of weight eps
\* per missing symbol; for the alphabet {a, b, c}, an edge a of weight 0.8
\* and final probability 0.2 the weights are 0.79, 0.19, 0.01, 0.01.
C10_SmoothingFormula ==
    \A n \in States :
        Smoothed(n) =>
            LET nb == Len(Before(n).probs)
            IN  /\ Len(After(n).probs) = nb + Len(Missing(n))
                /\ Len(After(n).symbols) = nb + Len(Missing(n))
                /\ Len(After(n).dests) = nb + Len(Missing(n))
                /\ \A i \in 1..nb :
                       /\ After(n).symbols[i] = Before(n).symbols[i]
                       /\ After(n).dests[i] = Before(n).dests[i]
                       /\ Before(n).probs[i] > 0 =>
                              NumPositive(n) * (Before(n).probs[i] - After(n).probs[i])
                                  = smoothing_amount * Len(Missing(n))
                       /\ Before(n).probs[i] = 0 => After(n).probs[i] = 0
                /\ \A j \in DOMAIN Missing(n) :
                       /\ After(n).symbols[nb + j] = Missing(n)[j]
                       /\ After(n).dests[nb + j] = n
                       /\ After(n).probs[nb + j] = smoothing_amount
                /\ (/\ Len(symbol_display_map) = 4
                    /\ Before(n).probs = <<W(8, 10), W(2, 10)>>
                    /\ smoothing_amount = W(1, 100)) =>
                       After(n).probs = <<W(79, 100), W(19, 100), W(1, 100), W(1, 100)>>

\* C10's case: the alphabet {a, b, c}; A with the edge a of weight 0.8 and
\* final probability 0.2 smoothed to 0.79, 0.19, 0.01, 0.01; and B smoothed
\* with an original entry of weight zero
C10_ScenarioE ==
    /\ Built
    /\ Smoothed("A") /\ Smoothed("B")
    /\ Before("A").probs = <<W(8, 10), W(2, 10)>>
    /\ Before("A").symbols = <<1, FinalTransitionSym>>
    /\ After("A").probs = <<W(79, 100), W(19, 100), W(1, 100), W(1, 100)>>
    /\ After("A").symbols = <<1, FinalTransitionSym, 2, 3>>
    /\ After("A").dests = <<"B", "A", "A", "A">>
    /\ Dist("A").pk = After("A").probs
    /\ \E i \in DOMAIN Before("B").probs :
           Before("B").probs[i] = 0 /\ After("B").probs[i] = 0
    /\ Len(After("B").probs) > Len(Before("B").probs)

\* C11: in the non-stochastic mode the lists of a state are made of its
\* outgoing edges alone, whatever the declared probabilities, the final
\* probability and the smoothing flag: without an edge, the one self-loop on
\* the final symbol with weight 1; with n >= 1 edges, weight 1/n on each
\* edge's symbol and destination and no entry for the final symbol.
C11_UniformFromEdgesOnly ==
    \A n \in States :
        (~is_stochastic /\ locals[n] # <<>>) =>
            LET es == OutEdges(n)
            IN  /\ HasLists(n)
                /\ After(n) = Before(n)
                /\ es = <<>> =>
                       After(n) = Categorical(<<One>>, <<n>>, <<FinalTransitionSym>>)
                /\ es # <<>> =>
                       /\ Len(After(n).probs) = Len(es)
                       /\ Len(After(n).symbols) = Len(es)
                       /\ Len(After(n).dests) = Len(es)
                       /\ \A i \in DOMAIN es :
                              /\ Len(es) * After(n).probs[i] = One
                              /\ After(n).symbols[i] = Get(symbol_display_map, es[i].symbol)
                              /\ After(n).symbols[i] # FinalTransitionSym
                              /\ After(n).dests[i] = es[i].dst
                /\ HasDist(n) =>
                       Dist(n) = [xk |-> After(n).symbols, pk |-> After(n).probs]

\* C11's case: a non-stochastic automaton built with the smoothing flag set
\* and probabilities declared; A has three edges of weight 1/3 each, B none
C11_ThreeEdgesAndTerminal ==
    /\ Built
    /\ ~is_stochastic /\ use_smoothing
    /\ Len(cfg_edges) = 3 /\ cfg_edges[1].probability = <<W(4, 5)>>
    /\ cfg_nodes["A"] # <<>>
    /\ Dist("A").pk = <<W(1, 3), W(1, 3), W(1, 3)>>
    /\ FinalTransitionSym \notin Range(Dist("A").xk)
    /\ Dist("B") = [xk |-> <<FinalTransitionSym>>, pk |-> <<One>>]
    /\ After("B").dests = <<"B">>

\* C12: in the stochastic mode without smoothing the lists of a state are its
\* outgoing edges, each with its declared probability, its destination and
\* its symbol's index, followed by one entry on the final symbol that leads
\* to the state itself with the state's final probability; no other entry is
\* on the final symbol, and the distribution built is made of these lists
C12_EdgesAndOneFinalEntry ==
    \A n \in States :
        (is_stochastic /\ ~use_smoothing /\ HasLists(n)) =>
            LET es == OutEdges(n)
                k == Len(es)
                l == After(n)
            IN  /\ Before(n) = l
                /\ Len(l.probs) = k + 1 /\ Len(l.dests) = k + 1 /\ Len(l.symbols) = k + 1
                /\ \A i \in 1..k :
                       /\ l.probs[i] = es[i].probability[1]
                       /\ l.dests[i] = es[i].dst
                       /\ l.symbols[i] = Get(symbol_display_map, es[i].symbol)
                       /\ l.symbols[i] # FinalTransitionSym
                /\ l.probs[k + 1] = cfg_nodes[n][1]
                /\ l.dests[k + 1] = n
                /\ l.symbols[k + 1] = FinalTransitionSym
                /\ HasDist(n) => Dist(n) = [xk |-> l.symbols, pk |-> l.probs]

\* C12's case: A -a-> B with 0.5, A -b-> A with 0.3 and final probability 0.2
\* give the weights 0.5, 0.3, 0.2 at A, the last on the final symbol and
\* leading to A; B, without an edge, has the final entry of weight 1 alone
C12_ScenarioA ==
    /\ Built
    /\ is_stochastic /\ ~use_smoothing
    /\ Len(OutEdges("A")) = 2
    /\ Dist("A").pk = <<W(1, 2), W(3, 10), W(1, 5)>>
    /\ Dist("A").xk = <<Get(symbol_display_map, 11), Get(symbol_display_map, 12),
                        FinalTransitionSym>>
    /\ After("A").dests = <<"B", "A", "A">>
    /\ Dist("B").pk = <<One>>
    /\ Dist("B").xk = <<FinalTransitionSym>>

\* the key of the global map for the entry i of the lists of n
EntryKey(n, i) == <<n, Inverse(symbol_display_map, After(n).symbols[i])>>

\* C13: in a built automaton the global map holds, for every entry (symbol,
\* destination) of every state's final distribution, the destination under
\* the key (state, external symbol), and it has no other key
C13_MapMatchesDistributions ==
    Built =>
        /\ \A n \in States :
               \A i \in DOMAIN After(n).symbols :
                   /\ EntryKey(n, i) \in DOMAIN transition_map
                   /\ transition_map[EntryKey(n, i)] = After(n).dests[i]
        /\ \A key \in DOMAIN transition_map :
               \E n \in States :
                   \E i \in DOMAIN After(n).symbols : key = EntryKey(n, i)

\* the states declared before the i-th
DeclaredBefore(i) == {NodeOrder[j] : j \in 1..(i - 1)}

\* map holds the local entries loc of the states ns, and nothing else
HoldsEntriesOf(map, loc, ns) ==
    /\ {key[1] : key \in DOMAIN map} = ns
    /\ DOMAIN map = UNION {Range(Keys(loc[m][1].entries)) : m \in ns}
    /\ \A m \in ns :
           \A i \in DOMAIN loc[m][1].entries :
               map[loc[m][1].entries[i][1]] = loc[m][1].entries[i][2]

\* C14: the construction processes the states one by one in the order of
\* their declaration, none twice: a turn of the loop finds the states before
\* the current one processed and no other, and the global map holding their
\* entries and no other; it processes the current state alone, whose
\* acceptance is set even when building its distribution fails; when the
\* turn succeeds the state's entries are in the map before the next turn,
\* and when it fails the construction stops with the map as it was, the
\* entries of exactly the states declared before the failing one
C14_InOrderOnceMergedBeforeNext ==
    [][pc = "nodes" =>
          /\ \A i \in DOMAIN NodeOrder : locals[NodeOrder[i]] # <<>> <=> i < next_node
          /\ HoldsEntriesOf(transition_map, locals, DeclaredBefore(next_node))
          /\ IF next_node <= Len(NodeOrder)
             THEN LET n == NodeOrder[next_node]
                  IN  /\ locals'[n] # <<>>
                      /\ \A m \in States \ {n} :
                             locals'[m] = locals[m] /\ node_data'[m] = node_data[m]
                      /\ node_data[n].is_accepting = <<>>
                      /\ node_data'[n].is_accepting # <<>>
                      /\ IF locals'[n][1].err = <<>>
                         THEN /\ pc' = "nodes" /\ next_node' = next_node + 1
                              /\ node_data'[n].trans_distribution # <<>>
                              /\ HoldsEntriesOf(transition_map', locals',
                                                DeclaredBefore(next_node + 1))
                         ELSE /\ pc' = "failed" /\ next_node' = next_node
                              /\ error' = locals'[n][1].err
                              /\ transition_map' = transition_map
                              /\ HoldsEntriesOf(transition_map', locals',
                                                DeclaredBefore(next_node))
             ELSE /\ pc' = "done"
                  /\ UNCHANGED <<locals, node_data, transition_map>>
      ]_vars

\* C14's case: the construction failed at B while building its distribution;
\* B's acceptance is set, it has no distribution, and the map holds the
\* entries of A alone
C14_FailedAtSecondState ==
    /\ Failed /\ FailedAt = "B"
    /\ locals["A"] # <<>> /\ locals["A"][1].err = <<>>
    /\ locals["B"] # <<>> /\ locals["B"][1].err = error /\ error # <<>>
    /\ node_data["B"].is_accepting # <<>>
    /\ node_data["B"].trans_distribution = <<>>
    /\ transition_map # <<>>
    /\ HoldsEntriesOf(transition_map, locals, {"A"})

\* C15: a call of _compute_node_data_properties on a state of a built
\* automaton fails, whatever the mode, with the duplicate-transition error
\* that names the state and the symbol of its first local entry, although
\* the entries and their destinations are those the map holds; the map is
\* left as it was
C15_RecomputeAlwaysDuplicate ==
    recomputed # <<>> =>
        LET n == recomputed[1].node
            entries == locals[n][1].entries
        IN  /\ entries # <<>>
            /\ \A i \in DOMAIN entries :
                   /\ entries[i][1] \in DOMAIN recomputed[1].before
                   /\ recomputed[1].before[entries[i][1]] = entries[i][2]
            /\ recomputed[1].error = Raise("ValueError", "duplicate transition", entries[1][1])
            /\ entries[1][1][1] = n
            /\ transition_map = recomputed[1].before

\* C15's case: the call on B of a built stochastic automaton with smoothing,
\* whose distribution was built again, failed on B's first key
C15_RecomputeSmoothedState ==
    /\ Built /\ is_stochastic /\ use_smoothing
    /\ recomputed # <<>>
    /\ recomputed[1].node = "B"
    /\ recomputed[1].error # <<>>
    /\ recomputed[1].error[1].kind = "ValueError"
    /\ recomputed[1].error[1].at[1] = "B"
    /\ HasDist("B") /\ Len(Dist("B").xk) > 1
    /\ transition_map = recomputed[1].before

\* how many items of the list hold the value v
CountIn(heap, v) == Cardinality({i \in DOMAIN heap : heap[i].val = v})

\* the largest value held
LargestHeld(count) == CHOOSE v \in HeapVals :
    count[v] > 0 /\ \A w \in HeapVals : count[w] > 0 => w <= v

\* C16: after any sequence of heappush and heappop on a MaxHeap, heappop
\* called only on a heap that is not empty: the heap's length is the number
\* of pushes less the number of pops, its list holds the values pushed and
\* not yet popped, each as often as it is held, and index 0 reads the
\* largest of them; a heappop returns the largest value held and takes
\* exactly one occurrence of it from the list, and a heappush adds one of
\* the value pushed
C16_MaxHeapPopsLargest ==
    [][/\ Len(h') = pushes' - pops'
       /\ \A v \in HeapVals : CountIn(h', v) = held'[v]
       /\ h' # <<>> => At(h', 0).val = LargestHeld(held')
       /\ pops' = pops + 1 =>
              /\ h # <<>>
              /\ pushes' = pushes
              /\ returned' = <<LargestHeld(held)>>
              /\ returned' = <<At(h, 0).val>>
              /\ \A v \in HeapVals :
                     CountIn(h', v) = CountIn(h, v) - (IF <<v>> = returned' THEN 1 ELSE 0)
       /\ pushes' = pushes + 1 =>
              /\ pops' = pops /\ returned' = returned
              /\ \E x \in HeapVals :
                     \A v \in HeapVals :
                         CountIn(h', v) = CountIn(h, v) + (IF v = x THEN 1 ELSE 0)
      ]_vars

\* C16's case: after five pushes, two 3s among them, and two pops, the last
\* pop returned 3 although a 3 had been popped before: one occurrence was
\* taken each time; the three values left, 1s and 2s, have a 2 at index 0
C16_PoppedOneOfTwo ==
    /\ pushes = 5 /\ pops = 2
    /\ returned = <<3>>
    /\ held[3] = 0 /\ held[2] >= 1 /\ held[1] >= 1
    /\ HeapLen = 3
    /\ GetItem(0) = 2
====
